---- MODULE Spec2Model ----
(***************************************************************************)
(* Model of the capture session of pose_perfect_app: App.tsx (the state    *)
(* owner) and components/CameraView.tsx (camera acquisition effect, frame  *)
(* compositor, countdown, overlay gesture interpreter).                    *)
(*                                                                         *)
(* React is modelled at handler granularity: one action is one event       *)
(* handler or one timer/promise callback together with the re-render and   *)
(* the effects it causes.                                                  *)
(***************************************************************************)
EXTENDS Integers, Naturals, Sequences, FiniteSets, TLC

(* ------------------------------ bounds -------------------------------- *)

\* getUserMedia requests issued over the whole run
MaxAcq == 3
\* setInterval timers created over the whole run
MaxTimers == 2
\* simultaneous touch contacts
MaxTouches == 2
\* largest |translateX| the moves may produce
MaxPos == 3
\* largest denominator of an overlay scale value
MaxDen == 10
\* time steps per countdown interval
Phases == 2
\* largest videoWidth and videoHeight of the frames the crop is checked on
MaxDim == 8

(* ------------------------- program constants -------------------------- *)

IntervalMs == 1000
GraceMs == 100
\* time advances in steps of IntervalMs / Phases; a delay lasts the least
\* number of steps that covers it
IntervalQ == Phases
GraceQ == (GraceMs * Phases + IntervalMs - 1) \div IntervalMs

\* a timer button that steps 0, 5, 3, 10
TimerOptionsSwapped == <<0, 5, 3, 10>>

TimerOptions == <<0, 3, 5, 10>>
AspectRatios == {<<3, 4>>, <<1, 1>>, <<9, 16>>}
FacingModes == {"user", "environment"}

\* frame sizes the camera may deliver (videoWidth, videoHeight)
FrameSizes == {<<4, 3>>, <<3, 4>>}
\* pointer and touch positions (clientX, clientY)
Pts == {<<0, 0>>, <<3, 4>>, <<6, 8>>}

(* ------------------------------ numbers ------------------------------- *)

Abs(x) == IF x < 0 THEN -x ELSE x

RECURSIVE GCD(_, _)
GCD(a, b) == IF b = 0 THEN a ELSE GCD(b, a % b)

\* a non-negative rational <<num, den>> in lowest terms
Rat(n, d) == LET g == GCD(n, d) IN IF g = 0 THEN <<0, 1>> ELSE <<n \div g, d \div g>>
RLe(a, b) == a[1] * b[2] <= b[1] * a[2]
RMul(a, b) == Rat(a[1] * b[1], a[2] * b[2])
RAdd(a, b) == Rat(a[1] * b[2] + b[1] * a[2], a[2] * b[2])
\* a - b, saturating at 0 (only used where the clamp follows)
RSubSat(a, b) == IF a[1] * b[2] <= b[1] * a[2] THEN <<0, 1>>
                 ELSE Rat(a[1] * b[2] - b[1] * a[2], a[2] * b[2])
\* a - b, of either sign
RSub(a, b) == Rat(a[1] * b[2] - b[1] * a[2], a[2] * b[2])
RMin(a, b) == IF RLe(a, b) THEN a ELSE b
RMax(a, b) == IF RLe(a, b) THEN b ELSE a

ScaleMin == <<1, 2>>
ScaleMax == <<3, 1>>
WheelStepDouble == <<1, 5>>
WheelStep == <<1, 10>>

\* Math.hypot on the positions of Pts (all their distances are whole)
Hypot(dx, dy) == CHOOSE d \in 0..(Abs(dx) + Abs(dy)) : d * d = dx * dx + dy * dy

TouchDistance(ts) == Hypot(ts[1][1] - ts[2][1], ts[1][2] - ts[2][2])

(* ------------------------------- state -------------------------------- *)

VARIABLES
  \* App.tsx state
  facingMode, capturedImage, timerSeconds, aspectRatio,
  overlayImage, overlayZoom, overlayPosition,
  \* CameraView.tsx state
  stream, isLoading, cameraError,
  isDragging, dragStart, lastTouchDistance, isZooming,
  countdownActive, countdown,
  \* camera runtime: getUserMedia requests, their streams, the video element
  acq, acqAlive, trackLive, curEffect, videoSrc, videoWidth, videoHeight,
  \* timer runtime: setInterval / setTimeout
  timers,
  \* input runtime: document listeners, contacts on the screen, mouse button
  listeners, touches, mouseDown,
  \* history: the handler that wrote the overlay transform last, whether
  \* its Math.max / Math.min changed the value, and whether the transform it
  \* replaced was off identity
  wroteBy, clamped, replaced,
  \* App.tsx state the capture and the overlay image read, and as history
  \* the size of the frame the last capture took
  isFlipped, overlayOpacity, shotFrame,
  \* camera zoom and torch: App.tsx zoom and flashEnabled, CameraView.tsx
  \* zoomCaps and torchSupported, the device behind the held stream, the
  \* applyConstraints calls in flight, and what became of rejected ones
  zoom, flashEnabled, zoomCaps, torchSupported, streamDevice,
  applying, unhandled, warned,
  \* history: whether the last camera switch replaced a zoom level other than 1
  zoomReset,
  \* history of the drag in progress: the position of the press that started
  \* it with the translation at that press, and where the mouse that holds
  \* it is
  anchor, pointer

appVars == <<facingMode, capturedImage, timerSeconds, aspectRatio>>
overlayVars == <<overlayImage, overlayZoom, overlayPosition>>
camStateVars == <<stream, isLoading, cameraError>>
gestureVars == <<isDragging, dragStart, lastTouchDistance, isZooming>>
countdownVars == <<countdownActive, countdown>>
camRunVars == <<acq, acqAlive, trackLive, curEffect, videoSrc, videoWidth, videoHeight>>
inputVars == <<listeners, touches, mouseDown>>
historyVars == <<wroteBy, clamped, replaced>>
lookVars == <<isFlipped, overlayOpacity, shotFrame>>
lensVars == <<zoom, flashEnabled, zoomCaps, torchSupported, streamDevice,
              applying, unhandled, warned, zoomReset>>
dragVars == <<anchor, pointer>>

vars == <<facingMode, capturedImage, timerSeconds, aspectRatio,
          overlayImage, overlayZoom, overlayPosition,
          stream, isLoading, cameraError,
          isDragging, dragStart, lastTouchDistance, isZooming,
          countdownActive, countdown,
          acq, acqAlive, trackLive, curEffect, videoSrc, videoWidth, videoHeight,
          timers, listeners, touches, mouseDown, wroteBy, clamped, replaced,
          isFlipped, overlayOpacity, shotFrame,
          zoom, flashEnabled, zoomCaps, torchSupported, streamDevice,
          applying, unhandled, warned, zoomReset, anchor, pointer>>

AcqIds == 1..MaxAcq
TimerIds == 1..MaxTimers

NoImage == [kind |-> "null", w |-> 0, h |-> 0, mirrored |-> FALSE, drawn |-> {}]
\* what a track tells about itself: whether getSettings() has a zoom entry, the
\* zoom range of getCapabilities() (<<>> when it has none), whether
\* getCapabilities() has a torch entry
NoDevice == [zoomSetting |-> FALSE, zoomRange |-> <<>>, torch |-> FALSE]

\* the cameras getUserMedia may hand out: one without zoom and torch, one
\* whose zoom range starts at 1, one whose zoom range starts above 1, one
\* with a zoom setting but no zoom range
Devices ==
  {NoDevice,
   [zoomSetting |-> TRUE, zoomRange |-> <<1, 3>>, torch |-> TRUE],
   [zoomSetting |-> TRUE, zoomRange |-> <<2, 4>>, torch |-> FALSE],
   [zoomSetting |-> TRUE, zoomRange |-> <<>>, torch |-> FALSE]}

NoTimer == [status |-> "unused", n |-> 0, ticks |-> 0, due |-> 0,
            cancelled |-> FALSE, grace |-> "none", gdue |-> 0,
            delivered |-> FALSE, orphan |-> FALSE, frozenLow |-> FALSE,
            ratio |-> <<0, 0>>]

\* no drag is in progress
NoAnchor == <<<<0, 0>>, <<0, 0>>>>

\* CameraView is rendered exactly while App has no captured image
Mounted == capturedImage.kind = "null"

UsedAcq == {i \in AcqIds : acq[i] # "unused"}
UsedTimers == {t \in TimerIds : timers[t].status # "unused"}
LiveStreams == {i \in AcqIds : trackLive[i]}

(* ------------------------- frame compositor --------------------------- *)

\* videoWidth / videoHeight > ratioW / ratioH in IEEE arithmetic:
\* x/0 is Infinity for x > 0 and 0/0 is NaN, which compares false
Wider(vw, vh, r) ==
  IF vh = 0 THEN vw > 0 ELSE vw * r[2] > r[1] * vh

\* a crop that takes the whole frame whatever the target ratio
CropWholeFrame(vw, vh, r) ==
  [drawWidth |-> <<vw, 1>>, drawHeight |-> <<vh, 1>>, sx |-> <<0, 1>>, sy |-> <<0, 1>>]

\* a crop that keeps the full height and sets the width from it, whatever
\* the shape of the frame
CropByHeight(vw, vh, r) ==
  [drawWidth |-> Rat(vh * r[1], r[2]), drawHeight |-> <<vh, 1>>,
   sx |-> RMul(RSub(<<vw, 1>>, Rat(vh * r[1], r[2])), <<1, 2>>), sy |-> <<0, 1>>]

\* a crop that covers the frame: the branches of the comparison are swapped,
\* so the rectangle in the target ratio reaches beyond the frame
CropCover(vw, vh, r) ==
  IF ~Wider(vw, vh, r)
  THEN [drawWidth |-> Rat(vh * r[1], r[2]), drawHeight |-> <<vh, 1>>,
        sx |-> RMul(RSub(<<vw, 1>>, Rat(vh * r[1], r[2])), <<1, 2>>), sy |-> <<0, 1>>]
  ELSE [drawWidth |-> <<vw, 1>>, drawHeight |-> Rat(vw * r[2], r[1]),
        sx |-> <<0, 1>>, sy |-> RMul(RSub(<<vh, 1>>, Rat(vw * r[2], r[1])), <<1, 2>>)]

\* the crop of handleCapture, sizes and offsets as rationals
Crop(vw, vh, r) ==
  IF Wider(vw, vh, r)
  THEN [drawWidth |-> Rat(vh * r[1], r[2]), drawHeight |-> <<vh, 1>>,
        sx |-> RMul(RSub(<<vw, 1>>, Rat(vh * r[1], r[2])), <<1, 2>>), sy |-> <<0, 1>>]
  ELSE [drawWidth |-> <<vw, 1>>, drawHeight |-> Rat(vw * r[2], r[1]),
        sx |-> <<0, 1>>, sy |-> RMul(RSub(<<vh, 1>>, Rat(vw * r[2], r[1])), <<1, 2>>)]

\* canvas.width / canvas.height are integers: the assignment truncates
CanvasSize(vw, vh, r) ==
  LET c == Crop(vw, vh, r)
  IN  <<c.drawWidth[1] \div c.drawWidth[2], c.drawHeight[1] \div c.drawHeight[2]>>

\* a canvas on which the overlay image is drawn over the frame when one is loaded
CanvasWithOverlay(vw, vh, r) ==
  [size |-> CanvasSize(vw, vh, r), mirrored |-> isFlipped,
   drawn |-> IF overlayImage THEN {"video", "overlay"} ELSE {"video"}]

\* the canvas after handleCapture has drawn on it: its size, whether the
\* context was flipped, and the sources of the drawImage calls
Canvas(vw, vh, r) ==
  [size |-> CanvasSize(vw, vh, r), mirrored |-> isFlipped, drawn |-> {"video"}]

\* canvas.toDataURL: "data:," for a canvas without pixels, a JPEG otherwise
ToDataURL(canvas) ==
  IF canvas.size[1] = 0 \/ canvas.size[2] = 0
  THEN [kind |-> "data:,", w |-> 0, h |-> 0, mirrored |-> FALSE, drawn |-> {}]
  ELSE [kind |-> "jpeg", w |-> canvas.size[1], h |-> canvas.size[2],
        mirrored |-> canvas.mirrored, drawn |-> canvas.drawn]

\* the data URL handleCapture hands to onCapture; r is the aspectRatio of
\* the render whose handleCapture runs, the frame is read through the ref
CapturedDataURL(r) == ToDataURL(Canvas(videoWidth, videoHeight, r))

(* ------------------ mount / unmount of CameraView --------------------- *)

\* the cleanup of the camera effect: stops currentStream when it is set,
\* that is when this effect's own request has resolved
EffectCleanup(live) ==
  IF curEffect # 0 /\ acq[curEffect] = "resolved"
  THEN [live EXCEPT ![curEffect] = FALSE]
  ELSE live

\* the start of startCamera: stops the stream the render holds
StopHeldStream(live) ==
  IF stream # 0 THEN [live EXCEPT ![stream] = FALSE] ELSE live

\* App.handleCapture stores the image; App then renders the preview in place
\* of CameraView, whose state, refs and effects go away
OnCapture(img) ==
  /\ capturedImage' = img
  /\ trackLive' = EffectCleanup(trackLive)
  /\ curEffect' = 0
  /\ acqAlive' = [i \in AcqIds |-> FALSE]
  /\ stream' = 0
  /\ isLoading' = TRUE
  /\ cameraError' = FALSE
  /\ videoSrc' = 0
  /\ videoWidth' = 0
  /\ videoHeight' = 0
  /\ countdownActive' = FALSE
  /\ countdown' = 0
  /\ isDragging' = FALSE
  /\ isZooming' = FALSE
  /\ dragStart' = <<0, 0>>
  /\ lastTouchDistance' = 0
  /\ listeners' = FALSE
  /\ zoomCaps' = <<>>
  /\ torchSupported' = FALSE
  /\ streamDevice' = NoDevice
  /\ shotFrame' = <<videoWidth, videoHeight>>
  /\ UNCHANGED <<historyVars, facingMode, timerSeconds, aspectRatio, overlayVars, acq, touches, mouseDown>>
  /\ UNCHANGED <<isFlipped, overlayOpacity, zoom, flashEnabled, applying, unhandled, warned, zoomReset, dragVars>>

\* every timer of the unmounted component keeps running without its component
Orphaned(ts) ==
  [t \in TimerIds |->
     IF ts[t].status = "unused" \/ ts[t].orphan THEN ts[t]
     ELSE [ts[t] EXCEPT !.orphan = TRUE, !.frozenLow = (countdown <= 1)]]

\* handleCapture of the mounted component (both refs are set), as the
\* render with aspectRatio r created it; ts are the timers as the caller
\* leaves them
HandleCapture(ts, r) ==
  /\ OnCapture(CapturedDataURL(r))
  /\ timers' = Orphaned(ts)

(* ---------------------- zoom and torch effects ------------------------ *)

\* the zoom effect, run after a render with held stream st on device dev and
\* zoomCaps caps: the applyConstraints calls in flight after it
ZoomEffect(calls, st, dev, caps) ==
  IF st # 0 /\ dev.zoomSetting /\ caps # <<>> THEN calls \cup {"zoom"} ELSE calls

\* the torch effect, run after a render with held stream st and torchSupported
\* supported: the applyConstraints calls in flight after it
TorchEffect(calls, st, supported) ==
  IF st # 0 /\ supported THEN calls \cup {"torch"} ELSE calls

\* the zoomCaps startCamera sets for the track of device dev
ZoomCapsOf(dev) ==
  IF dev.zoomSetting
  THEN IF dev.zoomRange # <<>> THEN dev.zoomRange ELSE zoomCaps
  ELSE <<>>

(* -------------------------- camera effect ----------------------------- *)

NextAcq == CHOOSE i \in AcqIds : acq[i] = "unused" /\ \A j \in AcqIds : j < i => acq[j] # "unused"

\* the body of the effect up to the await: a new request is pending
StartCamera(live) ==
  /\ isLoading' = TRUE
  /\ cameraError' = FALSE
  /\ trackLive' = live
  /\ acq' = [acq EXCEPT ![NextAcq] = "pending"]
  /\ acqAlive' = [acqAlive EXCEPT ![NextAcq] = TRUE]
  /\ curEffect' = NextAcq

Init ==
  /\ facingMode = "environment"
  /\ capturedImage = NoImage
  /\ timerSeconds = 0
  /\ aspectRatio = <<3, 4>>
  /\ overlayImage = FALSE
  /\ overlayZoom = <<1, 1>>
  /\ overlayPosition = <<0, 0>>
  /\ stream = 0
  /\ isLoading = TRUE
  /\ cameraError = FALSE
  /\ isDragging = FALSE
  /\ dragStart = <<0, 0>>
  /\ lastTouchDistance = 0
  /\ isZooming = FALSE
  /\ countdownActive = FALSE
  /\ countdown = 0
  /\ acq = [i \in AcqIds |-> IF i = 1 THEN "pending" ELSE "unused"]
  /\ acqAlive = [i \in AcqIds |-> i = 1]
  /\ trackLive = [i \in AcqIds |-> FALSE]
  /\ curEffect = 1
  /\ videoSrc = 0
  /\ videoWidth = 0
  /\ videoHeight = 0
  /\ timers = [t \in TimerIds |-> NoTimer]
  /\ listeners = FALSE
  /\ touches = <<>>
  /\ mouseDown = FALSE
  /\ wroteBy = "none"
  /\ clamped = FALSE
  /\ replaced = FALSE
  /\ isFlipped = FALSE
  /\ overlayOpacity = 30
  /\ shotFrame = <<0, 0>>
  /\ zoom = 1
  /\ flashEnabled = FALSE
  /\ zoomCaps = <<>>
  /\ torchSupported = FALSE
  /\ streamDevice = NoDevice
  /\ applying = {}
  /\ unhandled = FALSE
  /\ warned = FALSE
  /\ zoomReset = FALSE
  /\ anchor = NoAnchor
  /\ pointer = <<0, 0>>

\* a switch that carries the zoom level over to the other camera
SwitchZoomKept == zoom

\* the zoom level handleSwitchCamera sets
SwitchZoom == 1

\* App.handleSwitchCamera, then the camera effect re-runs for the new
\* facingMode and the zoom effect for a changed zoom
SwitchCamera ==
  /\ Mounted
  /\ \E i \in AcqIds : acq[i] = "unused"
  /\ facingMode' = IF facingMode = "user" THEN "environment" ELSE "user"
  /\ zoom' = SwitchZoom
  /\ zoomReset' = (zoom # 1)
  /\ StartCamera(StopHeldStream(EffectCleanup(trackLive)))
  /\ applying' = IF zoom' # zoom THEN ZoomEffect(applying, stream, streamDevice, zoomCaps)
                                  ELSE applying
  /\ UNCHANGED <<historyVars, capturedImage, timerSeconds, aspectRatio, overlayVars, stream,
                 gestureVars, countdownVars, videoSrc, videoWidth, videoHeight,
                 timers, inputVars>>
  /\ UNCHANGED <<lookVars, flashEnabled, zoomCaps, torchSupported, streamDevice,
                 unhandled, warned, dragVars>>

\* whether the continuation of request i may install its stream
InstallsStream(i) == acqAlive[i]

\* getUserMedia of request i resolves with a track of device dev: the
\* continuation after the await, then the zoom and torch effects
AcqResolve(i, dev) ==
  /\ acq[i] = "pending"
  /\ acq' = [acq EXCEPT ![i] = "resolved"]
  /\ trackLive' = [trackLive EXCEPT ![i] = TRUE]
  /\ IF InstallsStream(i)
     THEN /\ stream' = i
          /\ videoSrc' = i
          /\ videoWidth' = 0
          /\ videoHeight' = 0
          /\ isLoading' = FALSE
          /\ streamDevice' = dev
          /\ zoomCaps' = ZoomCapsOf(dev)
          /\ torchSupported' = dev.torch
          /\ applying' = TorchEffect(ZoomEffect(applying, i, dev, zoomCaps'), i, dev.torch)
     ELSE UNCHANGED <<stream, videoSrc, videoWidth, videoHeight, isLoading,
                      streamDevice, zoomCaps, torchSupported, applying>>
  /\ UNCHANGED <<historyVars, appVars, overlayVars, cameraError, gestureVars, countdownVars,
                 acqAlive, curEffect, timers, inputVars>>
  /\ UNCHANGED <<lookVars, zoom, flashEnabled, unhandled, warned, zoomReset, dragVars>>

\* a rejected request that leaves the session as it is
AcqRejectSilent(i) ==
  /\ acq[i] = "pending"
  /\ acq' = [acq EXCEPT ![i] = "rejected"]
  /\ UNCHANGED <<cameraError, isLoading>>
  /\ UNCHANGED <<historyVars, appVars, overlayVars, stream, gestureVars, countdownVars,
                 acqAlive, trackLive, curEffect, videoSrc, videoWidth, videoHeight,
                 timers, inputVars>>
  /\ UNCHANGED <<lookVars, lensVars, dragVars>>

\* getUserMedia of request i rejects: catch and finally
AcqReject(i) ==
  /\ acq[i] = "pending"
  /\ acq' = [acq EXCEPT ![i] = "rejected"]
  /\ IF acqAlive[i]
     THEN /\ cameraError' = TRUE
          /\ isLoading' = FALSE
     ELSE UNCHANGED <<cameraError, isLoading>>
  /\ UNCHANGED <<historyVars, appVars, overlayVars, stream, gestureVars, countdownVars,
                 acqAlive, trackLive, curEffect, videoSrc, videoWidth, videoHeight,
                 timers, inputVars>>
  /\ UNCHANGED <<lookVars, lensVars, dragVars>>

\* the video element gets the first frame of a live srcObject
VideoLoaded(size) ==
  /\ videoSrc # 0
  /\ trackLive[videoSrc]
  /\ videoWidth = 0
  /\ videoWidth' = size[1]
  /\ videoHeight' = size[2]
  /\ UNCHANGED <<historyVars, appVars, overlayVars, camStateVars, gestureVars, countdownVars,
                 acq, acqAlive, trackLive, curEffect, videoSrc, timers, inputVars>>
  /\ UNCHANGED <<lookVars, lensVars, dragVars>>

\* App.handleRetake: CameraView mounts again with fresh state and its effect runs
Retake ==
  /\ ~Mounted
  /\ \E i \in AcqIds : acq[i] = "unused"
  /\ capturedImage' = NoImage
  /\ StartCamera(trackLive)
  /\ UNCHANGED <<historyVars, facingMode, timerSeconds, aspectRatio, overlayVars, stream,
                 gestureVars, countdownVars, videoSrc, videoWidth, videoHeight,
                 timers, inputVars>>
  /\ shotFrame' = <<0, 0>>
  /\ UNCHANGED <<isFlipped, overlayOpacity, lensVars, dragVars>>

\* one of the aspect ratio buttons
SetAspectRatio(r) ==
  /\ Mounted
  /\ aspectRatio # r
  /\ aspectRatio' = r
  /\ UNCHANGED <<historyVars, facingMode, capturedImage, timerSeconds, overlayVars, camStateVars,
                 gestureVars, countdownVars, camRunVars, timers, inputVars>>
  /\ UNCHANGED <<lookVars, lensVars, dragVars>>

\* the positions of the zoom slider over all devices (step 1)
ZoomLevels ==
  UNION {d.zoomRange[1]..d.zoomRange[2] : d \in {e \in Devices : e.zoomRange # <<>>}}

\* the camera zoom slider (rendered while zoomCaps is set): setZoom, then
\* the zoom effect
ZoomSlider(v) ==
  /\ Mounted
  /\ zoomCaps # <<>>
  /\ v \in zoomCaps[1]..zoomCaps[2]
  /\ v # zoom
  /\ zoom' = v
  /\ applying' = ZoomEffect(applying, stream, streamDevice, zoomCaps)
  /\ UNCHANGED <<historyVars, appVars, overlayVars, camStateVars, gestureVars, countdownVars,
                 camRunVars, timers, inputVars>>
  /\ UNCHANGED <<lookVars, flashEnabled, zoomCaps, torchSupported, streamDevice,
                 unhandled, warned, zoomReset, dragVars>>

\* the flash button: setFlashEnabled(!flashEnabled), then the torch effect
ToggleFlash ==
  /\ Mounted
  /\ flashEnabled' = ~flashEnabled
  /\ applying' = TorchEffect(applying, stream, torchSupported)
  /\ UNCHANGED <<historyVars, appVars, overlayVars, camStateVars, gestureVars, countdownVars,
                 camRunVars, timers, inputVars>>
  /\ UNCHANGED <<lookVars, zoom, zoomCaps, torchSupported, streamDevice,
                 unhandled, warned, zoomReset, dragVars>>

\* which applyConstraints promises have a rejection handler attached:
\* the torch effect chains .catch, the zoom effect drops the promise
Caught == {"torch"}

\* the constraints the effects apply to the live track
ConstraintKinds == {"torch", "zoom"}

\* the applyConstraints promise of kind k resolves
ConstraintResolve(k) ==
  /\ k \in applying
  /\ applying' = applying \ {k}
  /\ UNCHANGED <<historyVars, appVars, overlayVars, camStateVars, gestureVars, countdownVars,
                 camRunVars, timers, inputVars>>
  /\ UNCHANGED <<lookVars, zoom, flashEnabled, zoomCaps, torchSupported, streamDevice,
                 unhandled, warned, zoomReset, dragVars>>

\* the applyConstraints promise of kind k rejects: console.warn in the
\* handler when there is one, an unhandled rejection otherwise
ConstraintReject(k) ==
  /\ k \in applying
  /\ applying' = applying \ {k}
  /\ warned' = (warned \/ k \in Caught)
  /\ unhandled' = (unhandled \/ k \notin Caught)
  /\ UNCHANGED <<historyVars, appVars, overlayVars, camStateVars, gestureVars, countdownVars,
                 camRunVars, timers, inputVars>>
  /\ UNCHANGED <<lookVars, zoom, flashEnabled, zoomCaps, torchSupported, streamDevice,
                 zoomReset, dragVars>>

(* ----------------------------- countdown ------------------------------ *)

NextTimer == CHOOSE t \in TimerIds : timers[t].status = "unused" /\ \A u \in TimerIds : u < t => timers[u].status # "unused"

\* the countdown the display shows: the one started last
RunningTimer == CHOOSE t \in UsedTimers : \A u \in UsedTimers : u <= t

\* a capture button that, with the timer off, captures and creates the
\* interval as well
CaptureNowCounting ==
  /\ Mounted
  /\ ~countdownActive
  /\ timerSeconds = 0
  /\ \E t \in TimerIds : timers[t].status = "unused"
  /\ HandleCapture([timers EXCEPT ![NextTimer] =
                      [NoTimer EXCEPT !.status = "live", !.due = IntervalQ,
                                      !.ratio = aspectRatio]],
                   aspectRatio)

\* the capture button with the timer off: startCountdown calls handleCapture
CaptureNow ==
  /\ Mounted
  /\ ~countdownActive
  /\ timerSeconds = 0
  /\ HandleCapture(timers, aspectRatio)

\* the capture button with a timer set: startCountdown creates the interval
StartCountdown ==
  /\ Mounted
  /\ ~countdownActive
  /\ timerSeconds # 0
  /\ \E t \in TimerIds : timers[t].status = "unused"
  /\ countdownActive' = TRUE
  /\ countdown' = timerSeconds
  /\ timers' = [timers EXCEPT ![NextTimer] =
                  [NoTimer EXCEPT !.status = "live", !.n = timerSeconds, !.due = IntervalQ,
                                  !.ratio = aspectRatio]]
  /\ UNCHANGED <<historyVars, appVars, overlayVars, camStateVars, gestureVars, camRunVars, inputVars>>
  /\ UNCHANGED <<lookVars, lensVars, dragVars>>

\* what cancelCountdown does to the interval of the running countdown
CancelInterval(t) == [t EXCEPT !.cancelled = TRUE]

\* the Cancel button of the countdown display
CancelCountdown ==
  /\ Mounted
  /\ countdownActive
  /\ countdownActive' = FALSE
  /\ countdown' = 0
  /\ timers' = [timers EXCEPT ![RunningTimer] = CancelInterval(timers[RunningTimer])]
  /\ UNCHANGED <<historyVars, appVars, overlayVars, camStateVars, gestureVars, camRunVars, inputVars>>
  /\ UNCHANGED <<lookVars, lensVars, dragVars>>

TimerIndex(s) == CHOOSE i \in 1..Len(TimerOptions) : TimerOptions[i] = s

\* the timer button
CycleTimer ==
  /\ Mounted
  /\ timerSeconds' = TimerOptions[(TimerIndex(timerSeconds) % Len(TimerOptions)) + 1]
  /\ UNCHANGED <<historyVars, facingMode, capturedImage, aspectRatio, overlayVars, camStateVars,
                 gestureVars, countdownVars, camRunVars, timers, inputVars>>
  /\ UNCHANGED <<lookVars, lensVars, dragVars>>

\* one time step passes; no callback is overdue
Elapse ==
  /\ \E t \in TimerIds : timers[t].status = "live" \/ timers[t].grace = "pending"
  /\ \A t \in TimerIds : /\ timers[t].status = "live" => timers[t].due > 0
                         /\ timers[t].grace = "pending" => timers[t].gdue > 0
  /\ timers' = [t \in TimerIds |->
                  [timers[t] EXCEPT
                     !.due = IF timers[t].status = "live" THEN @ - 1 ELSE @,
                     !.gdue = IF timers[t].grace = "pending" THEN @ - 1 ELSE @]]
  /\ UNCHANGED <<historyVars, appVars, overlayVars, camStateVars, gestureVars, countdownVars,
                 camRunVars, inputVars>>
  /\ UNCHANGED <<lookVars, lensVars, dragVars>>

\* the whole intervals timer t has run for, counted up to the n it started with
Ticked(t) == IF t.ticks < t.n THEN t.ticks + 1 ELSE t.ticks

\* the updater of the interval callback reaching zero: clearInterval,
\* setCountdownActive(false), setTimeout(handleCapture, 100)
Finish(t) == [t EXCEPT !.status = "cleared", !.ticks = Ticked(t),
                       !.grace = "pending", !.gdue = GraceQ]

\* the updater of the interval callback above one: the interval stays
Reschedule(t) == [t EXCEPT !.ticks = Ticked(t), !.due = IntervalQ]

\* the interval callback of timer t, its component mounted
IntervalTick(t) ==
  /\ timers[t].status = "live"
  /\ ~timers[t].orphan
  /\ timers[t].due = 0
  /\ IF countdown <= 1
     THEN /\ timers' = [timers EXCEPT ![t] = Finish(timers[t])]
          /\ countdownActive' = FALSE
          /\ countdown' = 0
     ELSE /\ timers' = [timers EXCEPT ![t] = Reschedule(timers[t])]
          /\ countdown' = countdown - 1
          /\ UNCHANGED countdownActive
  /\ UNCHANGED <<historyVars, appVars, overlayVars, camStateVars, gestureVars, camRunVars, inputVars>>
  /\ UNCHANGED <<lookVars, lensVars, dragVars>>

\* the interval callback of timer t, its component unmounted: React either
\* drops the update or evaluates the updater on the last rendered countdown
OrphanTick(t) ==
  /\ timers[t].status = "live"
  /\ timers[t].orphan
  /\ timers[t].due = 0
  /\ \E evaluated \in BOOLEAN :
       timers' = [timers EXCEPT ![t] =
                    IF evaluated /\ timers[t].frozenLow
                    THEN [timers[t] EXCEPT !.status = "cleared",
                                           !.grace = "pending", !.gdue = GraceQ]
                    ELSE [timers[t] EXCEPT !.due = IntervalQ]]
  /\ UNCHANGED <<historyVars, appVars, overlayVars, camStateVars, gestureVars, countdownVars,
                 camRunVars, inputVars>>
  /\ UNCHANGED <<lookVars, lensVars, dragVars>>

\* the setTimeout callback of timer t: handleCapture of the render that
\* started the countdown, with the aspectRatio of that render
GraceFire(t) ==
  /\ timers[t].grace = "pending"
  /\ timers[t].gdue = 0
  /\ IF timers[t].orphan
     THEN /\ timers' = [timers EXCEPT ![t].grace = "fired"]
          /\ UNCHANGED <<appVars, overlayVars, camStateVars, gestureVars,
                         countdownVars, camRunVars, inputVars, historyVars,
                         lookVars, lensVars, dragVars>>
     ELSE HandleCapture([timers EXCEPT ![t].grace = "fired", ![t].delivered = TRUE],
                        timers[t].ratio)

(* ------------------------ gesture interpreter ------------------------- *)

\* the clamp without its upper limit
ClampLowOnly(x) == RMax(ScaleMin, x)

\* Math.max(0.5, Math.min(3, x))
Clamp(x) == RMax(ScaleMin, RMin(ScaleMax, x))

\* the listener effect: registered after a render with a gesture flag set
ListenerEffect(dragging, zooming) == dragging \/ zooming

InRange(pos) == Abs(pos[1]) <= MaxPos

\* the overlay transform is translation (0,0), scale 1
IdentityTransform == overlayZoom = <<1, 1>> /\ overlayPosition = <<0, 0>>

\* an upload that stores the new image and leaves the transform as it is
OverlayUploadKeepsTransform ==
  /\ Mounted
  /\ overlayImage' = TRUE
  /\ UNCHANGED <<overlayZoom, overlayPosition>>
  /\ UNCHANGED <<appVars, camStateVars, gestureVars, countdownVars, camRunVars,
                 timers, inputVars>>
  /\ wroteBy' = "upload"
  /\ clamped' = FALSE
  /\ replaced' = ~IdentityTransform
  /\ UNCHANGED <<lookVars, lensVars, dragVars>>

\* FileReader.onload of handleOverlayUpload
OverlayUpload ==
  /\ Mounted
  /\ overlayImage' = TRUE
  /\ overlayZoom' = <<1, 1>>
  /\ overlayPosition' = <<0, 0>>
  /\ UNCHANGED <<appVars, camStateVars, gestureVars, countdownVars, camRunVars,
                 timers, inputVars>>
  /\ wroteBy' = "upload"
  /\ clamped' = FALSE
  /\ replaced' = ~IdentityTransform
  /\ UNCHANGED <<lookVars, lensVars, dragVars>>

\* a gesture handler that goes on without an overlay image
IgnoredNever == FALSE

\* the early return of the gesture handlers: if (!overlayImage) return
Ignored == ~overlayImage

\* which flags a mouse press on the overlay leaves set
MouseDownFlags == <<TRUE, isZooming>>

\* the mouse button goes down at position p, on the overlay when there is
\* one: handleOverlayMouseDown
OverlayMouseDown(p) ==
  /\ Mounted
  /\ ~mouseDown
  /\ mouseDown' = TRUE
  /\ IF Ignored
     THEN UNCHANGED <<gestureVars, listeners, dragVars>>
     ELSE /\ isDragging' = MouseDownFlags[1]
          /\ isZooming' = MouseDownFlags[2]
          /\ dragStart' = <<p[1] - overlayPosition[1], p[2] - overlayPosition[2]>>
          /\ listeners' = ListenerEffect(isDragging', isZooming')
          /\ anchor' = <<p, overlayPosition>>
          /\ pointer' = p
          /\ UNCHANGED lastTouchDistance
  /\ UNCHANGED <<historyVars, appVars, overlayVars, camStateVars,
                 countdownVars, camRunVars, timers, touches>>
  /\ UNCHANGED <<lookVars, lensVars>>

\* a move handler that takes the pointer position as the translation
OverlayMoveAbsolute(p) ==
  IF isDragging
  THEN overlayPosition' = p
  ELSE UNCHANGED overlayPosition

\* handleOverlayMove
OverlayMove(p) ==
  IF isDragging
  THEN overlayPosition' = <<p[1] - dragStart[1], p[2] - dragStart[2]>>
  ELSE UNCHANGED overlayPosition

\* a mouse move over the document; handleMouseMove runs when registered
MouseMove(p) ==
  /\ Mounted
  /\ listeners
  /\ OverlayMove(p)
  /\ InRange(overlayPosition')
  /\ overlayPosition' # overlayPosition
  /\ UNCHANGED <<appVars, overlayImage, overlayZoom, camStateVars, gestureVars,
                 countdownVars, camRunVars, timers, inputVars>>
  /\ wroteBy' = "drag"
  /\ clamped' = FALSE
  /\ replaced' = FALSE
  /\ pointer' = IF mouseDown /\ isDragging /\ Len(touches) = 0 THEN p ELSE pointer
  /\ UNCHANGED <<lookVars, lensVars, anchor>>

\* handleOverlayEnd and the listener effect after it
OverlayEnd ==
  /\ isDragging' = FALSE
  /\ isZooming' = FALSE
  /\ lastTouchDistance' = 0
  /\ listeners' = ListenerEffect(isDragging', isZooming')
  /\ UNCHANGED dragStart

\* the mouse button is released; mouseup runs handleOverlayEnd when registered
MouseUp ==
  /\ mouseDown
  /\ mouseDown' = FALSE
  /\ pointer' = <<0, 0>>
  /\ IF listeners
     THEN OverlayEnd /\ anchor' = NoAnchor
     ELSE UNCHANGED <<gestureVars, listeners, anchor>>
  /\ UNCHANGED <<historyVars, appVars, overlayVars, camStateVars, countdownVars, camRunVars,
                 timers, touches>>
  /\ UNCHANGED <<lookVars, lensVars>>

\* a second contact that starts the pinch and leaves the drag flag alone
PinchStartKeepsDrag == <<isDragging, TRUE>>

\* the flags a second contact leaves: isDragging false, isZooming true
PinchStartFlags == <<FALSE, TRUE>>

\* a new contact at p, on the overlay when there is one: handleOverlayTouchStart
OverlayTouchStart(p) ==
  /\ Mounted
  /\ Len(touches) < MaxTouches
  /\ touches' = Append(touches, p)
  /\ IF Ignored
     THEN UNCHANGED <<gestureVars, dragVars>>
     ELSE IF Len(touches') = 1
     THEN /\ isDragging' = TRUE
          /\ isZooming' = FALSE
          /\ dragStart' = <<p[1] - overlayPosition[1], p[2] - overlayPosition[2]>>
          /\ anchor' = <<p, overlayPosition>>
          /\ pointer' = <<0, 0>>
          /\ UNCHANGED lastTouchDistance
     ELSE IF Len(touches') = 2
     THEN /\ isDragging' = PinchStartFlags[1]
          /\ isZooming' = PinchStartFlags[2]
          /\ lastTouchDistance' = TouchDistance(touches')
          /\ anchor' = NoAnchor
          /\ pointer' = <<0, 0>>
          /\ UNCHANGED dragStart
     ELSE UNCHANGED <<gestureVars, dragVars>>
  /\ listeners' = ListenerEffect(isDragging', isZooming')
  /\ UNCHANGED <<historyVars, appVars, overlayVars, camStateVars, countdownVars, camRunVars,
                 timers, mouseDown>>
  /\ UNCHANGED <<lookVars, lensVars>>

\* a pinch that takes the distance ratio itself as the scale
PinchZoomUnscaled(d) == Clamp(<<d, lastTouchDistance>>)

\* the scale a pinch move to distance d gives
PinchZoom(d) == Clamp(RMul(overlayZoom, <<d, lastTouchDistance>>))

\* handleTouchMove with the contacts at ts
TouchMoveHandler(ts) ==
  IF Ignored
  THEN UNCHANGED <<overlayZoom, overlayPosition, lastTouchDistance>>
  ELSE IF Len(ts) = 1 /\ isDragging /\ ~isZooming
  THEN /\ OverlayMove(ts[1])
       /\ UNCHANGED <<overlayZoom, lastTouchDistance>>
  ELSE IF Len(ts) = 2 /\ isZooming
  THEN /\ overlayZoom' = IF lastTouchDistance > 0
                         THEN PinchZoom(TouchDistance(ts))
                         ELSE overlayZoom
       /\ lastTouchDistance' = TouchDistance(ts)
       /\ UNCHANGED overlayPosition
  ELSE UNCHANGED <<overlayZoom, overlayPosition, lastTouchDistance>>

\* contact k moves to p; touchmove runs handleTouchMove when registered
TouchMove(k, p) ==
  /\ k \in 1..Len(touches)
  /\ touches[k] # p
  /\ touches' = [touches EXCEPT ![k] = p]
  /\ IF listeners
     THEN TouchMoveHandler(touches')
     ELSE UNCHANGED <<overlayZoom, overlayPosition, lastTouchDistance>>
  /\ InRange(overlayPosition')
  /\ overlayZoom'[2] <= MaxDen
  /\ UNCHANGED <<appVars, overlayImage, camStateVars, isDragging, dragStart, isZooming,
                 countdownVars, camRunVars, timers, listeners, mouseDown>>
  /\ IF overlayPosition' # overlayPosition
     THEN wroteBy' = "drag" /\ clamped' = FALSE /\ replaced' = FALSE
     ELSE IF listeners /\ overlayImage /\ Len(touches) = 2 /\ isZooming /\ lastTouchDistance > 0
     THEN /\ wroteBy' = "pinch"
          /\ clamped' = (overlayZoom' # RMul(overlayZoom, <<TouchDistance(touches'), lastTouchDistance>>))
          /\ replaced' = FALSE
     ELSE UNCHANGED historyVars
  /\ UNCHANGED <<lookVars, lensVars, dragVars>>

Without(ts, k) == [j \in 1..(Len(ts) - 1) |-> IF j < k THEN ts[j] ELSE ts[j + 1]]

\* contact k is lifted; touchend runs handleOverlayEnd when registered
TouchEnd(k) ==
  /\ k \in 1..Len(touches)
  /\ touches' = Without(touches, k)
  /\ IF listeners
     THEN OverlayEnd /\ anchor' = NoAnchor /\ pointer' = <<0, 0>>
     ELSE UNCHANGED <<gestureVars, listeners, dragVars>>
  /\ UNCHANGED <<historyVars, appVars, overlayVars, camStateVars, countdownVars, camRunVars,
                 timers, mouseDown>>
  /\ UNCHANGED <<lookVars, lensVars>>

\* the browser cancels the touch sequence (touchcancel): the contacts are
\* gone and no handler of CameraView is registered for the event
TouchCancel ==
  /\ Len(touches) > 0
  /\ touches' = <<>>
  /\ UNCHANGED <<historyVars, appVars, overlayVars, camStateVars, gestureVars, countdownVars,
                 camRunVars, timers, listeners, mouseDown>>
  /\ UNCHANGED <<lookVars, lensVars, dragVars>>

\* a wheel tick, on the overlay when there is one: handleOverlayWheel; up is
\* TRUE for deltaY <= 0
OverlayWheel(up) ==
  /\ Mounted
  /\ IF Ignored
     THEN UNCHANGED <<overlayZoom, historyVars>>
     ELSE /\ overlayZoom' = Clamp(IF up THEN RAdd(overlayZoom, WheelStep)
                                          ELSE RSubSat(overlayZoom, WheelStep))
          /\ overlayZoom'[2] <= MaxDen
          /\ wroteBy' = "wheel"
          /\ clamped' = (overlayZoom' # (IF up THEN RAdd(overlayZoom, WheelStep)
                                               ELSE RSubSat(overlayZoom, WheelStep)))
          /\ replaced' = FALSE
  /\ UNCHANGED <<appVars, overlayImage, overlayPosition, camStateVars, gestureVars,
                 countdownVars, camRunVars, timers, inputVars>>
  /\ UNCHANGED <<lookVars, lensVars, dragVars>>

\* values of the scale range input (min 0.5, max 3, step 0.1): both ends
\* and one position between them, in tenths
SliderValues == {Rat(v, 10) : v \in {5, 14, 30}}

\* the scale slider: setOverlayZoom(parseFloat(value))
ScaleSlider(v) ==
  /\ Mounted
  /\ overlayImage
  /\ overlayZoom # v
  /\ overlayZoom' = v
  /\ UNCHANGED <<appVars, overlayImage, overlayPosition, camStateVars, gestureVars,
                 countdownVars, camRunVars, timers, inputVars>>
  /\ wroteBy' = "slider"
  /\ clamped' = FALSE
  /\ replaced' = FALSE
  /\ UNCHANGED <<lookVars, lensVars, dragVars>>

\* values of the opacity range input (min 0, max 1, step 0.05), in percent:
\* both ends and the initial value
OpacityValues == {0, 30, 100}

\* the opacity slider: setOverlayOpacity(parseFloat(value))
OpacitySlider(v) ==
  /\ Mounted
  /\ overlayImage
  /\ overlayOpacity # v
  /\ overlayOpacity' = v
  /\ UNCHANGED <<appVars, overlayVars, camStateVars, gestureVars, countdownVars,
                 camRunVars, timers, inputVars, historyVars>>
  /\ UNCHANGED <<isFlipped, shotFrame, lensVars, dragVars>>

\* a reset that restores the scale and leaves the translation
ResetScaleOnly ==
  /\ Mounted
  /\ overlayImage
  /\ overlayZoom' = <<1, 1>>
  /\ UNCHANGED <<appVars, overlayImage, overlayPosition, camStateVars, gestureVars,
                 countdownVars, camRunVars, timers, inputVars>>
  /\ wroteBy' = "reset"
  /\ clamped' = FALSE
  /\ replaced' = ~IdentityTransform
  /\ UNCHANGED <<lookVars, lensVars, dragVars>>

\* resetOverlayTransform
ResetOverlayTransform ==
  /\ Mounted
  /\ overlayImage
  /\ overlayZoom' = <<1, 1>>
  /\ overlayPosition' = <<0, 0>>
  /\ UNCHANGED <<appVars, overlayImage, camStateVars, gestureVars, countdownVars,
                 camRunVars, timers, inputVars>>
  /\ wroteBy' = "reset"
  /\ clamped' = FALSE
  /\ replaced' = ~IdentityTransform
  /\ UNCHANGED <<lookVars, lensVars, dragVars>>

(* --------------------------- specifications --------------------------- *)

\* camera acquisition and the capture button
NextCamera ==
  \/ SwitchCamera
  \/ \E i \in AcqIds : AcqResolve(i, NoDevice)
  \/ \E i \in AcqIds : AcqReject(i)
  \/ \E size \in FrameSizes : VideoLoaded(size)
  \/ \E r \in AspectRatios : SetAspectRatio(r)
  \/ Retake
  \/ CaptureNow

SpecCamera == Init /\ [][NextCamera]_vars

\* the first request has resolved and the video shows its first frame
InitReady ==
  /\ facingMode = "environment"
  /\ capturedImage = NoImage
  /\ timerSeconds = 0
  /\ aspectRatio = <<3, 4>>
  /\ overlayImage = FALSE
  /\ overlayZoom = <<1, 1>>
  /\ overlayPosition = <<0, 0>>
  /\ stream = 1
  /\ isLoading = FALSE
  /\ cameraError = FALSE
  /\ isDragging = FALSE
  /\ dragStart = <<0, 0>>
  /\ lastTouchDistance = 0
  /\ isZooming = FALSE
  /\ countdownActive = FALSE
  /\ countdown = 0
  /\ acq = [i \in AcqIds |-> IF i = 1 THEN "resolved" ELSE "unused"]
  /\ acqAlive = [i \in AcqIds |-> i = 1]
  /\ trackLive = [i \in AcqIds |-> i = 1]
  /\ curEffect = 1
  /\ videoSrc = 1
  /\ \E size \in FrameSizes : videoWidth = size[1] /\ videoHeight = size[2]
  /\ timers = [t \in TimerIds |-> NoTimer]
  /\ listeners = FALSE
  /\ touches = <<>>
  /\ mouseDown = FALSE
  /\ wroteBy = "none"
  /\ clamped = FALSE
  /\ replaced = FALSE
  /\ isFlipped = FALSE
  /\ overlayOpacity = 30
  /\ shotFrame = <<0, 0>>
  /\ zoom = 1
  /\ flashEnabled = FALSE
  /\ zoomCaps = <<>>
  /\ torchSupported = FALSE
  /\ streamDevice = NoDevice
  /\ applying = {}
  /\ unhandled = FALSE
  /\ warned = FALSE
  /\ zoomReset = FALSE
  /\ anchor = NoAnchor
  /\ pointer = <<0, 0>>

\* the countdown on a running camera, with the camera switch
NextCountdown ==
  \/ SwitchCamera
  \/ CaptureNow
  \/ StartCountdown
  \/ CancelCountdown
  \/ CycleTimer
  \/ Elapse
  \/ \E t \in TimerIds : IntervalTick(t)
  \/ \E t \in TimerIds : OrphanTick(t)
  \/ \E t \in TimerIds : GraceFire(t)

SpecCountdown == InitReady /\ [][NextCountdown]_vars

\* countdowns that run to their end on a running camera, with the aspect
\* ratio buttons
NextTimed ==
  \/ \E r \in AspectRatios : SetAspectRatio(r)
  \/ CycleTimer
  \/ CaptureNow
  \/ StartCountdown
  \/ Elapse
  \/ \E t \in TimerIds : IntervalTick(t)
  \/ \E t \in TimerIds : GraceFire(t)

SpecTimed == InitReady /\ [][NextTimed]_vars

\* the overlay and its gestures, with the capture that unmounts CameraView
NextGesture ==
  \/ OverlayUpload
  \/ \E p \in Pts : OverlayMouseDown(p)
  \/ \E p \in Pts : MouseMove(p)
  \/ MouseUp
  \/ \E p \in Pts : OverlayTouchStart(p)
  \/ \E k \in 1..MaxTouches, p \in Pts : TouchMove(k, p)
  \/ \E k \in 1..MaxTouches : TouchEnd(k)
  \/ TouchCancel
  \/ \E up \in BOOLEAN : OverlayWheel(up)
  \/ \E v \in SliderValues : ScaleSlider(v)
  \/ ResetOverlayTransform
  \/ CaptureNow

SpecGesture == Init /\ [][NextGesture]_vars

\* the camera with its zoom and torch controls
NextLens ==
  \/ SwitchCamera
  \/ \E i \in AcqIds, dev \in Devices : AcqResolve(i, dev)
  \/ \E i \in AcqIds : AcqReject(i)
  \/ \E v \in ZoomLevels : ZoomSlider(v)
  \/ ToggleFlash
  \/ \E k \in ConstraintKinds : ConstraintResolve(k)
  \/ \E k \in ConstraintKinds : ConstraintReject(k)

SpecLens == Init /\ [][NextLens]_vars

\* the camera delivers frames of any size up to MaxDim x MaxDim
InitFramed ==
  /\ facingMode = "environment"
  /\ capturedImage = NoImage
  /\ timerSeconds = 0
  /\ aspectRatio = <<3, 4>>
  /\ overlayImage = FALSE
  /\ overlayZoom = <<1, 1>>
  /\ overlayPosition = <<0, 0>>
  /\ stream = 1
  /\ isLoading = FALSE
  /\ cameraError = FALSE
  /\ isDragging = FALSE
  /\ dragStart = <<0, 0>>
  /\ lastTouchDistance = 0
  /\ isZooming = FALSE
  /\ countdownActive = FALSE
  /\ countdown = 0
  /\ acq = [i \in AcqIds |-> IF i = 1 THEN "resolved" ELSE "unused"]
  /\ acqAlive = [i \in AcqIds |-> i = 1]
  /\ trackLive = [i \in AcqIds |-> i = 1]
  /\ curEffect = 1
  /\ videoSrc = 1
  /\ videoWidth \in 1..MaxDim
  /\ videoHeight \in 1..MaxDim
  /\ timers = [t \in TimerIds |-> NoTimer]
  /\ listeners = FALSE
  /\ touches = <<>>
  /\ mouseDown = FALSE
  /\ wroteBy = "none"
  /\ clamped = FALSE
  /\ replaced = FALSE
  /\ isFlipped = FALSE
  /\ overlayOpacity = 30
  /\ shotFrame = <<0, 0>>
  /\ zoom = 1
  /\ flashEnabled = FALSE
  /\ zoomCaps = <<>>
  /\ torchSupported = FALSE
  /\ streamDevice = NoDevice
  /\ applying = {}
  /\ unhandled = FALSE
  /\ warned = FALSE
  /\ zoomReset = FALSE
  /\ anchor = NoAnchor
  /\ pointer = <<0, 0>>

\* the capture of a frame, with the settings the user may change before it
NextCapture ==
  \/ \E r \in AspectRatios : SetAspectRatio(r)
  \/ OverlayUpload
  \/ \E v \in SliderValues : ScaleSlider(v)
  \/ \E v \in OpacityValues : OpacitySlider(v)
  \/ CaptureNow

SpecCapture == InitFramed /\ [][NextCapture]_vars

(* ------------------------------- claims ------------------------------- *)

\* C1: a countdown that was cancelled never produces a capture: no timer
\* whose countdown was cancelled has had its handleCapture reach onCapture.
CancelledNeverCaptures ==
  \A t \in TimerIds : timers[t].cancelled => ~timers[t].delivered

\* C2: a stream is installed as the session's current stream only by the
\* most recent acquisition request; a stale request's stream is discarded.
StaleStreamDiscarded ==
  [][(stream' # stream /\ stream' # 0) => stream' = curEffect']_vars

\* C3: at most one stream obtained by the session has live tracks.
AtMostOneLiveStream == Cardinality(LiveStreams) <= 1

\* C4: with videoWidth = 0 or videoHeight = 0 no step hands anything to
\* onCapture: the captured image stays what it was.
UnreadyCaptureIsNoOp ==
  [][(Mounted /\ (videoWidth = 0 \/ videoHeight = 0)) => capturedImage' = capturedImage]_vars

\* C5: while isLoading is true no step, button press or countdown, hands a
\* still image to onCapture.
NoCaptureWhileLoading ==
  [][(Mounted /\ isLoading) => capturedImage'.kind # "jpeg"]_vars

\* C6: a countdown that was not cancelled schedules its capture() call only
\* after its own interval has run n times, n the timer value it started with.
CaptureOnlyAfterN ==
  \A t \in TimerIds :
     (~timers[t].cancelled /\ ~timers[t].orphan /\ timers[t].grace # "none")
        => timers[t].ticks >= timers[t].n

\* C7: the periodic tick does not outlive its countdown: every interval still
\* scheduled belongs to the countdown that is counting now.
NoTickOutlivesCountdown ==
  \A t \in TimerIds :
     timers[t].status = "live"
        => (countdownActive /\ t = RunningTimer /\ ~timers[t].cancelled)

\* C8: the overlay scale is within [0.5, 3.0] in every reachable state.
ScaleInRange == RLe(ScaleMin, overlayZoom) /\ RLe(overlayZoom, ScaleMax)

\* C8 witness: a wheel tick was cut back to the upper limit 3.0
WheelSaturatedAtMax == wroteBy = "wheel" /\ clamped /\ overlayZoom = ScaleMax

\* C9: the dragging flag and the pinching flag are never both true.
OneGestureMode == ~(isDragging /\ isZooming)

\* C10: the document listeners are registered exactly while a gesture flag
\* is set, and never while no contact (mouse button or touch) is down.
ListenersOnlyDuringContact ==
  /\ listeners <=> (isDragging \/ isZooming)
  /\ listeners => (mouseDown \/ Len(touches) > 0)

\* C11: in every state whose overlay transform was last written by an upload
\* (a newly uploaded image just became the current overlay), the transform is
\* identity: translation (0,0) and scale 1.
UploadResetsTransform == wroteBy = "upload" => (overlayImage /\ IdentityTransform)

\* C11 witness: an upload has replaced a transform that was off identity
UploadOverMovedOverlay == wroteBy = "upload" /\ replaced /\ IdentityTransform

\* C12: once CameraView is unmounted no stream the session acquired has live
\* tracks, also not a stream whose request resolved after the unmount.
ReleasedAfterUnmount == ~Mounted => LiveStreams = {}

\* C13: every capture of a frame with vw, vh > 0 that yields a JPEG has the
\* target ratio within rounding (the exact crop has drawWidth / drawHeight =
\* rw / rh and the output is the crop cut down to whole pixels), and the crop
\* is centred: sy = 0 and sx = (vw - drawWidth) / 2 when the frame is wider
\* than the target, sx = 0 and sy = (vh - drawHeight) / 2 otherwise.
CropMatchesRatio ==
  [][(capturedImage.kind = "null" /\ capturedImage'.kind = "jpeg") =>
       LET c == Crop(videoWidth, videoHeight, aspectRatio)
           w == capturedImage'.w
           h == capturedImage'.h
       IN  /\ videoWidth > 0 /\ videoHeight > 0
           /\ RMul(c.drawWidth, <<aspectRatio[2], 1>>) = RMul(c.drawHeight, <<aspectRatio[1], 1>>)
           /\ RLe(<<w, 1>>, c.drawWidth) /\ ~RLe(<<w + 1, 1>>, c.drawWidth)
           /\ RLe(<<h, 1>>, c.drawHeight) /\ ~RLe(<<h + 1, 1>>, c.drawHeight)
           /\ IF videoWidth * aspectRatio[2] > aspectRatio[1] * videoHeight
              THEN /\ c.sy = <<0, 1>>
                   /\ RAdd(RMul(<<2, 1>>, c.sx), c.drawWidth) = <<videoWidth, 1>>
              ELSE /\ c.sx = <<0, 1>>
                   /\ RAdd(RMul(<<2, 1>>, c.sy), c.drawHeight) = <<videoHeight, 1>>]_vars

\* C13 witness: a captured JPEG whose whole-pixel size is not exactly in the
\* target ratio (the crop was cut down to whole pixels)
CapturedWithRounding ==
  /\ capturedImage.kind = "jpeg"
  /\ capturedImage.w * aspectRatio[2] # capturedImage.h * aspectRatio[1]

\* C14: the captured still is a function of the video frame, the aspect ratio
\* and the mirror flag alone and holds nothing but the frame: two captures
\* that agree on these three yield the same output whether or not an overlay
\* is loaded and whatever its opacity and transform are.
OverlayNotCaptured ==
  [][(capturedImage.kind = "null" /\ capturedImage'.kind = "jpeg") =>
       capturedImage' = [kind |-> "jpeg",
                         w |-> CanvasSize(videoWidth, videoHeight, aspectRatio)[1],
                         h |-> CanvasSize(videoWidth, videoHeight, aspectRatio)[2],
                         mirrored |-> isFlipped,
                         drawn |-> {"video"}]]_vars

\* C14 witness: a JPEG was captured with an overlay loaded whose scale and
\* opacity had been changed
CapturedUnderOverlay ==
  /\ capturedImage.kind = "jpeg"
  /\ overlayImage
  /\ overlayZoom # <<1, 1>>
  /\ overlayOpacity # 30

\* C15: every step that changes facingMode toggles it between front and back
\* and leaves cameraZoomLevel at 1, whatever the level was before.
SwitchResetsZoom ==
  [][facingMode' # facingMode =>
       /\ facingMode' = (IF facingMode = "user" THEN "environment" ELSE "user")
       /\ facingMode' \in FacingModes
       /\ zoom' = 1]_vars

\* C15 witness: a camera switch has replaced a zoom level other than 1
SwitchedWhileZoomed == zoomReset /\ zoom = 1 /\ facingMode = "user"

\* C16: whenever zoomCaps is set, the zoom level lies within [min, max].
ZoomWithinCaps == zoomCaps # <<>> => (zoomCaps[1] <= zoom /\ zoom <= zoomCaps[2])

\* C17: no rejected applyConstraints call, for zoom or for torch, ends as an
\* unhandled rejection.
ConstraintRejectionCaught == ~unhandled

\* C18: a failing acquisition of the mounted session sets the error; a new
\* request is issued only by a facing-mode change or by a mount, and it
\* clears the error; while the session stays mounted the error is cleared by
\* nothing but a facing-mode change that issues a new request.
AcquisitionFailurePersists ==
  [][LET issued == \E i \in AcqIds : acq[i] = "unused" /\ acq'[i] = "pending"
     IN  /\ \A i \in AcqIds :
              (acq[i] = "pending" /\ acq'[i] = "rejected" /\ acqAlive[i])
                 => (cameraError' /\ ~isLoading')
         /\ issued => ((facingMode' # facingMode \/ ~Mounted) /\ ~cameraError')
         /\ (cameraError /\ Mounted')
              => (cameraError' \/ (facingMode' # facingMode /\ issued))]_vars

\* C18 witness: a request of the mounted session has failed and a later
\* facing-mode change has cleared the error
ErrorClearedBySwitch ==
  /\ Mounted
  /\ ~cameraError
  /\ \E i \in AcqIds : acq[i] = "rejected" /\ acqAlive[i] /\ i < curEffect

\* C19: while no overlay image is loaded no step, whatever the gesture event
\* (mouse-down, touch-start, move, wheel), changes the overlay transform or
\* the gesture state (mode flags, drag anchor, last pinch distance).
GesturesIgnoredWithoutOverlay ==
  [][~overlayImage =>
       UNCHANGED <<overlayZoom, overlayPosition, isDragging, isZooming,
                   dragStart, lastTouchDistance>>]_vars

\* C19 witness: without an overlay the mouse button and two touch contacts
\* are down
ContactsWithoutOverlay == ~overlayImage /\ mouseDown /\ Len(touches) = 2

\* C20: every move of the pointer that holds a single-contact drag (the
\* pressed mouse with no touch, or the one touch with the mouse up) leaves
\* the translation at: translation at press + (pointer position - press
\* position).
DragTracksPointer ==
  [][LET tracked(cur) ==
           overlayPosition' = <<anchor[2][1] + (cur[1] - anchor[1][1]),
                                anchor[2][2] + (cur[2] - anchor[1][2])>>
     IN  /\ (/\ isDragging /\ ~isZooming
             /\ mouseDown /\ mouseDown'
             /\ Len(touches) = 0 /\ Len(touches') = 0
             /\ pointer' # pointer) => tracked(pointer')
         /\ (/\ isDragging /\ ~isZooming
             /\ ~mouseDown /\ ~mouseDown'
             /\ Len(touches) = 1 /\ Len(touches') = 1
             /\ touches' # touches) => tracked(touches'[1])]_vars

\* C20 witness: a mouse drag pressed at (3,4) with the overlay at (0,0) was
\* moved to (6,8) and the translation is (3,4)
DraggedByThreeFour ==
  /\ isDragging /\ mouseDown /\ Len(touches) = 0
  /\ wroteBy = "drag"
  /\ anchor = <<<<3, 4>>, <<0, 0>>>>
  /\ pointer = <<6, 8>>
  /\ overlayPosition = <<3, 4>>


\* C21: a move of one of two contacts while pinching, with a distance on
\* record, sets the scale to previous scale x current distance / recorded
\* distance, held within [0.5, 3], and records the current distance
PinchScalesByLastDistance ==
  [][(listeners /\ overlayImage /\ isZooming /\ Len(touches) = 2
        /\ Len(touches') = 2 /\ touches' # touches)
     => /\ lastTouchDistance' = TouchDistance(touches')
        /\ lastTouchDistance > 0 =>
             overlayZoom' = RMax(<<1, 2>>, RMin(<<3, 1>>,
                 RMul(overlayZoom, <<TouchDistance(touches'), lastTouchDistance>>)))]_vars

\* a pinch move has closed the contacts from distance 10 to 5 at scale 3
\* and left scale 3/2, with 5 on record for the next move
PinchedBackFromMax ==
  /\ wroteBy = "pinch"
  /\ ~clamped
  /\ overlayZoom = <<3, 2>>
  /\ lastTouchDistance = 5
  /\ Len(touches) = 2


\* C22: with an overlay loaded a wheel tick sets the scale to the old scale
\* plus or minus 0.1, held within [0.5, 3], and leaves the translation, the
\* mode flags, the drag anchor and the recorded pinch distance as they were
WheelStepsByTenth ==
  [][(wroteBy' = "wheel" /\ <<overlayZoom, wroteBy, clamped>>' # <<overlayZoom, wroteBy, clamped>>)
     => /\ overlayZoom' \in
             { RMax(<<1, 2>>, RMin(<<3, 1>>, RAdd(overlayZoom, <<1, 10>>))),
               RMax(<<1, 2>>, RMin(<<3, 1>>, RSub(overlayZoom, <<1, 10>>))) }
        /\ overlayZoom' # overlayZoom \/ overlayZoom \in {<<1, 2>>, <<3, 1>>}
        /\ UNCHANGED <<overlayPosition, isDragging, isZooming, dragStart,
                       lastTouchDistance, listeners>>]_vars

\* a wheel tick in the middle of a pinch over a moved overlay
WheelDuringPinch ==
  /\ wroteBy = "wheel"
  /\ ~clamped
  /\ isZooming
  /\ lastTouchDistance = 5
  /\ overlayPosition # <<0, 0>>


\* C23: the reset button leaves translation (0,0) and scale 1, whatever the
\* gesture mode and the transform before it
ResetGivesIdentity ==
  wroteBy = "reset" => (overlayPosition = <<0, 0>> /\ overlayZoom = <<1, 1>>)

\* a reset in the middle of a pinch that replaced a moved and scaled overlay
ResetDuringPinch ==
  /\ wroteBy = "reset"
  /\ replaced
  /\ isZooming
  /\ Len(touches) = 2


\* C24: the timer value is one of 0, 3, 5, 10 at all times, and every change
\* of it is a step of the cycle 0 -> 3 -> 5 -> 10 -> 0
TimerCyclesInOrder ==
  /\ [](timerSeconds \in {0, 3, 5, 10})
  /\ [][timerSeconds' # timerSeconds =>
          <<timerSeconds, timerSeconds'>> \in {<<0, 3>>, <<3, 5>>, <<5, 10>>, <<10, 0>>}]_vars

\* the timer button has gone round: a countdown was started at 10 and the
\* value is back at the initial 0
TimerWrappedToZero ==
  /\ timerSeconds = 0
  /\ \E t \in TimerIds : timers[t].n = 10


\* C25: while a countdown is counting, the remaining value is the value it
\* started with less the whole intervals its own timer has run, so it goes
\* down by one per interval, also after a cancel and a restart
OneDecrementPerInterval ==
  countdownActive =>
    countdown = timers[RunningTimer].n - timers[RunningTimer].ticks


\* C26: a touch-start that makes the contacts two sets the pinch mode,
\* clears the drag mode and records the distance of the two contacts; with
\* the drag mode clear no move changes the translation
PinchStartCancelsDrag ==
  [][/\ (overlayImage /\ Len(touches) = 1 /\ Len(touches') = 2)
        => /\ isZooming'
           /\ ~isDragging'
           /\ lastTouchDistance' = TouchDistance(touches')
     /\ (~isDragging /\ overlayPosition' # overlayPosition)
        => wroteBy' \in {"reset", "upload"}]_vars

\* a second contact has ended a drag that had moved the overlay
PinchAfterDrag ==
  /\ isZooming
  /\ ~isDragging
  /\ Len(touches) = 2
  /\ lastTouchDistance = 5
  /\ wroteBy = "drag"
  /\ overlayPosition # <<0, 0>>
  /\ anchor = NoAnchor


\* C27: with the view mounted, a step that releases the last contact leaves
\* the machine idle; a pinch ends when its contacts drop below two; the
\* recorded pinch distance is 0 once the pinch mode is left; and a drag ends
\* in idle only when no contact, finger or mouse button, is down any more
GestureEndsOnRelease ==
  [][Mounted' =>
       /\ ((isDragging \/ isZooming)
             /\ (Len(touches) > 0 \/ mouseDown)
             /\ Len(touches') = 0 /\ ~mouseDown')
          => (~isDragging' /\ ~isZooming')
       /\ (isZooming /\ Len(touches) >= 2 /\ Len(touches') < 2) => ~isZooming'
       /\ (isZooming /\ ~isZooming') => lastTouchDistance' = 0
       /\ (isDragging /\ ~isDragging' /\ ~isZooming')
          => (Len(touches') = 0 /\ ~mouseDown')]_vars


\* C28: while the mounted view has a camera request pending, isLoading is
\* true, also after an earlier request of it has resolved or failed
PendingMeansLoading ==
  (Mounted /\ \E i \in AcqIds : acq[i] = "pending" /\ acqAlive[i]) => isLoading


\* C29: once no request of the mounted view is pending, the zoom capability
\* is absent after a failed request, and after a successful one it is the
\* zoom range of the track that request delivered, absent when that track
\* has none
ZoomCapsMatchTrack ==
  (Mounted /\ curEffect \in AcqIds
     /\ \A i \in AcqIds : ~(acq[i] = "pending" /\ acqAlive[i]))
  => /\ acq[curEffect] = "rejected" => zoomCaps = <<>>
     /\ (acq[curEffect] = "resolved" /\ stream = curEffect)
          => zoomCaps = streamDevice.zoomRange


\* C30 as stated: the crop of every capture has exactly one side equal to
\* the side of the frame, the full height with another width or the full
\* width with another height
ExactlyOneSideIsSource ==
  [][(capturedImage.kind = "null" /\ capturedImage'.kind = "jpeg") =>
       LET c == Crop(videoWidth, videoHeight, aspectRatio)
       IN  \/ c.drawHeight = <<videoHeight, 1>> /\ c.drawWidth # <<videoWidth, 1>>
           \/ c.drawWidth = <<videoWidth, 1>> /\ c.drawHeight # <<videoHeight, 1>>]_vars

\* C30: the crop of every capture has the full height and at most the full
\* width, or the full width and at most the full height; both sides are the
\* frame's exactly when the frame already has the target ratio
OneSideIsSource ==
  [][(capturedImage.kind = "null" /\ capturedImage'.kind = "jpeg") =>
       LET c == Crop(videoWidth, videoHeight, aspectRatio)
           fullW == c.drawWidth = <<videoWidth, 1>>
           fullH == c.drawHeight = <<videoHeight, 1>>
       IN  /\ \/ fullH /\ RLe(c.drawWidth, <<videoWidth, 1>>)
              \/ fullW /\ RLe(c.drawHeight, <<videoHeight, 1>>)
           /\ (fullW /\ fullH) <=>
                (videoWidth * aspectRatio[2] = videoHeight * aspectRatio[1])]_vars

\* a capture of a frame that already had the target ratio: the still is the
\* whole frame
CapturedWholeFrame ==
  /\ capturedImage.kind = "jpeg"
  /\ shotFrame = <<capturedImage.w, capturedImage.h>>
  /\ shotFrame[1] * aspectRatio[2] = shotFrame[2] * aspectRatio[1]
  /\ shotFrame[1] # shotFrame[2]


\* C31: at every capture of a frame with both sides above 0 the crop
\* rectangle lies inside the frame: sx >= 0, sy >= 0, sx + drawWidth <= vw
\* and sy + drawHeight <= vh
CropInsideFrame ==
  [][(capturedImage.kind = "null" /\ capturedImage'.kind # "null"
        /\ videoWidth > 0 /\ videoHeight > 0) =>
       LET c == Crop(videoWidth, videoHeight, aspectRatio)
       IN  /\ c.sx[1] >= 0 /\ c.sx[2] > 0
           /\ c.sy[1] >= 0 /\ c.sy[2] > 0
           /\ RLe(RAdd(c.sx, c.drawWidth), <<videoWidth, 1>>)
           /\ RLe(RAdd(c.sy, c.drawHeight), <<videoHeight, 1>>)]_vars

\* a capture that cut the frame on both of its left and right edges: the
\* still is narrower than the frame it was taken from and as high
CroppedInWidth ==
  /\ capturedImage.kind = "jpeg"
  /\ capturedImage.w < shotFrame[1]
  /\ capturedImage.h = shotFrame[2]


\* C32: the still a finished countdown captures is composed from the frame
\* with the aspect ratio and the mirror flag of the moment its capture
\* fires
TimedCaptureUsesCurrentRatio ==
  [][(capturedImage.kind = "null" /\ capturedImage'.kind # "null"
        /\ \E t \in TimerIds : timers[t].grace = "pending" /\ timers'[t].grace = "fired")
     => capturedImage' = ToDataURL([size |-> CanvasSize(videoWidth, videoHeight, aspectRatio),
                                    mirrored |-> isFlipped, drawn |-> {"video"}])]_vars


\* C33: the mounted view shows the camera error only when its most recent
\* request has failed
ErrorOnlyFromLatestRequest ==
  (Mounted /\ cameraError) => (curEffect \in AcqIds /\ acq[curEffect] = "rejected")


\* C34: with the timer at 0 no step enters the counting state or starts an
\* interval, and a capture that no countdown fired is the capture button
\* pressed with the timer at 0: it stores the still composed from the
\* current frame and ratio in that same step and leaves countdownActive
\* false
ImmediateCaptureAtZero ==
  [][/\ timerSeconds = 0 =>
          /\ countdownActive' => countdownActive
          /\ \A t \in TimerIds :
               timers[t].status = "unused" => timers'[t].status = "unused"
     /\ (capturedImage.kind = "null" /\ capturedImage'.kind # "null"
          /\ \A t \in TimerIds : ~(timers[t].grace = "pending" /\ timers'[t].grace = "fired"))
        => /\ timerSeconds = 0
           /\ ~countdownActive /\ ~countdownActive'
           /\ capturedImage' =
                ToDataURL([size |-> CanvasSize(videoWidth, videoHeight, aspectRatio),
                           mirrored |-> isFlipped, drawn |-> {"video"}])]_vars

\* a still taken by the capture button with the timer off: no countdown
\* was ever started
CapturedWithoutTimer ==
  /\ capturedImage.kind = "jpeg"
  /\ timerSeconds = 0
  /\ ~countdownActive
  /\ \A t \in TimerIds : timers[t].status = "unused"

====
